---- MODULE Spec2Model ----
(***************************************************************************)
(* Model of 2_Training.ipynb: the training loop (Step 2 code cell), the    *)
(* validation inference loop, the construction of the reference map and    *)
(* the BLEU scoring call (Step 3 code cells).                              *)
(*                                                                         *)
(* Numbers that stand for floats are fixed-point integers in units of      *)
(* 10^-6 ("micro"); a field printed with :.4f is an integer in units of    *)
(* 10^-4.                                                                  *)
(***************************************************************************)
EXTENDS Integers, Sequences, FiniteSets, TLC

(* ---------------------------------------------------------------------- *)
(* Bounds of the model                                                     *)
(* ---------------------------------------------------------------------- *)
MaxEpochs == 2
MaxSteps == 2
MaxSaveEvery == 2
MaxPrintEvery == 2

(* ---------------------------------------------------------------------- *)
(* The training data set: caption length of every caption index.          *)
(* data_loader.dataset.caption_lengths in the code.                        *)
(* ---------------------------------------------------------------------- *)
caption_lengths == <<1, 1, 2>>

CaptionLengthsPresent == {caption_lengths[i] : i \in DOMAIN caption_lengths}

\* dataset.get_train_indices(): a caption length is chosen, then indices
\* whose caption has that length are sampled.
get_train_indices(sel_length) ==
    {i \in DOMAIN caption_lengths : caption_lengths[i] = sel_length}

\* data.sampler.SubsetRandomSampler(indices=indices)
SubsetRandomSampler(ind) == [bound |-> TRUE, indices |-> ind]

\* A name that is not bound in the kernel's namespace.
Unbound == [bound |-> FALSE, indices |-> {}]

\* next(iter(data_loader)): the batch is drawn from the indices of the
\* sampler installed on data_loader.batch_sampler.
NextBatch(smp) == smp.indices

(* ---------------------------------------------------------------------- *)
(* Loss, perplexity and the :.4f format                                    *)
(* ---------------------------------------------------------------------- *)
\* Values criterion(...) may return, in micro units (0.1 and 2.30004).
LossValues == {100000, 2300040}

\* np.exp(x) for x in micro units, result in micro units (rounded).
Exp(x) ==
    CASE x = 100000  -> 1105171
      [] x = 2300040 -> 9974581
      [] x = 2300000 -> 9974182
      [] OTHER       -> 0

\* f"{v:.4f}": v in micro units, the printed field in units of 10^-4.
Fmt4(v) == (v + 50) \div 100

\* The number a printed :.4f field denotes, in micro units.
FieldValue(fld) == fld * 100

\* Stats with the perplexity taken from the rounded loss that is printed.
StatsExpOfPrintedLoss(e, ne, s, ts, l) ==
    [epoch |-> e, num_epochs |-> ne, i_step |-> s, total_step |-> ts,
     loss |-> Fmt4(l), perplexity |-> Fmt4(Exp(FieldValue(Fmt4(l))))]

\* stats = f"Epoch [{epoch}/{num_epochs}], Step [{i_step}/{total_step}],
\*           Loss: {loss.item():.4f}, Perplexity: {np.exp(loss.item()):.4f}"
Stats(e, ne, s, ts, l) ==
    [epoch |-> e, num_epochs |-> ne, i_step |-> s, total_step |-> ts,
     loss |-> Fmt4(l), perplexity |-> Fmt4(Exp(l))]

\* A line left in the log file by an earlier run.
StaleLine == Stats(1, 1, 1, 1, 100000)

(* ---------------------------------------------------------------------- *)
(* Files                                                                   *)
(* ---------------------------------------------------------------------- *)
\* FileName with the epoch index counted from 0.
FileNameZeroBased(kind, e) == <<kind, e - 1>>

\* os.path.join("./models", "decoder-%d.pkl" % epoch)
FileName(kind, e) == <<kind, e>>

\* torch.save(state_dict, path): creates or overwrites the file.
Put(dir, name, content) ==
    [n \in (DOMAIN dir) \cup {name} |-> IF n = name THEN content ELSE dir[n]]

EmptyDir == [n \in {} |-> 0]

\* f.flush(): the buffered lines reach the file.
Flush(disk, buf) == disk \o buf

\* PrintDue on a step index counted from 0.
PrintDueZeroBased(s, pe) == (s - 1) % pe = 0

\* if i_step % print_every == 0
PrintDue(s, pe) == s % pe = 0

\* SaveDue on an epoch index counted from 0.
SaveDueZeroBased(e, se) == (e - 1) % se = 0

\* if epoch % save_every == 0
SaveDue(e, se) == e % se = 0

(* ---------------------------------------------------------------------- *)
(* Validation: maps of captions and the BLEU call                          *)
(* ---------------------------------------------------------------------- *)
MaxImages == 2
MaxAnnots == 2

ImageIds == 1..MaxImages

\* Captions of the annotation file, as written there.
Captions == {"A Dog", "a cat"}

\* str.lower()
Lower(str) == IF str = "A Dog" THEN "a dog" ELSE str

\* Strings clean_sentence(decoder.sample(features), idx2word) may return.
Sentences == {"a dog", ""}

\* defaultdict(list)
EmptyMap == [k \in {} |-> <<>>]

\* DictAppend that replaces the list of the key by the new value alone.
DictAppendOverwrites(d, k, v) ==
    [x \in (DOMAIN d) \cup {k} |-> IF x = k THEN <<v>> ELSE d[x]]

\* d[k].append(v) on a defaultdict(list)
DictAppend(d, k, v) ==
    [x \in (DOMAIN d) \cup {k} |->
       IF x = k
       THEN (IF k \in DOMAIN d THEN Append(d[k], v) ELSE <<v>>)
       ELSE d[x]]

\* A map left in the kernel by an earlier inference pass.
StalePredResult == DictAppend(EmptyMap, 1, "a dog")

\* Orders in which a loader can yield each image of a set of validation
\* images once.
LoaderOrders ==
    {q \in UNION {[1..n -> ImageIds] : n \in 0..MaxImages} :
       \A a, b \in DOMAIN q : a # b => q[a] # q[b]}

\* Contents of the "annotations" array of an annotation file.
AnnotationFiles ==
    UNION {[1..n -> [image_id : ImageIds, caption : Captions]] :
             n \in 0..MaxAnnots}

\* Score, in percent, of one candidate against the references of its
\* image: 100 for a candidate that is one of the references, 0 for any
\* other candidate (the empty one included).
SentenceBleu(refs, cand) ==
    IF cand # "" /\ \E k \in DOMAIN refs : refs[k] = cand THEN 100 ELSE 0

RECURSIVE SumScores(_, _, _)
SumScores(ids, true_sentences, predicted_sentences) ==
    IF ids = {} THEN 0
    ELSE LET i == CHOOSE x \in ids : TRUE
         IN  SentenceBleu(true_sentences[i], predicted_sentences[i][1])
             + SumScores(ids \ {i}, true_sentences, predicted_sentences)

\* bleu_score that walks the reference map and looks every key up in
\* the prediction map.
bleu_score_over_references(true_sentences, predicted_sentences) ==
    LET ids == DOMAIN true_sentences
        both == ids \cap DOMAIN predicted_sentences
    IN  [error |-> ids # both,
         scored |-> ids,
         score |-> IF both = {} THEN 0
                   ELSE SumScores(both, true_sentences, predicted_sentences)
                        \div Cardinality(both)]

\* nlp_utils.bleu_score(true_sentences, predicted_sentences): the images
\* scored are the keys of both maps, the result is the mean of their
\* scores.
bleu_score(true_sentences, predicted_sentences) ==
    LET ids == (DOMAIN true_sentences) \cap (DOMAIN predicted_sentences)
    IN  [error |-> FALSE,
         scored |-> ids,
         score |-> IF ids = {} THEN 0
                   ELSE SumScores(ids, true_sentences, predicted_sentences)
                        \div Cardinality(ids)]

NoBleu == [error |-> FALSE, scored |-> {}, score |-> 0]

(* ---------------------------------------------------------------------- *)
(* The notebook's configuration and the checkpoints the validation loads   *)
(* ---------------------------------------------------------------------- *)
\* num_epochs = 3
NotebookNumEpochs == 3

\* save_every = 1
NotebookSaveEvery == 1

\* print_every = 20
NotebookPrintEvery == 20

\* encoder_file = "encoder-3.pkl"
encoder_file == <<"encoder", 3>>

\* decoder_file = "decoder-3.pkl"
decoder_file == <<"decoder", 3>>

\* Freshly constructed EncoderCNN / DecoderRNN: no saved state loaded.
NotLoaded == [encoder |-> -1, decoder |-> -1]

(* ---------------------------------------------------------------------- *)
(* Statement order of the body of one training step                        *)
(* ---------------------------------------------------------------------- *)
\* The step body with the log written before the optimizer step.
StepBodyLogFirst ==
    <<"indices", "new_saosmpler", "install", "fetch", "zero_grad", "forward",
      "loss", "backward", "write", "flush", "optimizer", "print">>

StepBody ==
    <<"indices", "new_saosmpler", "install", "fetch", "zero_grad", "forward",
      "loss", "backward", "optimizer", "write", "flush", "print">>

StepPcs == {StepBody[k] : k \in DOMAIN StepBody}

PosOf(p) == CHOOSE k \in DOMAIN StepBody : StepBody[k] = p

\* The statement after statement p of the step body.
Succ(p) == StepBody[PosOf(p) + 1]

VARIABLES
    pc,             \* statement the training cell is about to execute
    num_epochs, total_step, save_every, print_every,   \* hyperparameters
    epoch, i_step,  \* loop counters
    f_state,        \* log file object f: "unopened", "open", "closed"
    open_count,     \* number of open(log_file, "w") calls
    f_buffer,       \* lines written to f and not yet flushed
    f_disk,         \* lines of the log file on disk
    stdout,         \* lines printed to the notebook
    new_sampler,    \* kernel global new_sampler (never assigned by the cell)
    new_saosmpler,  \* kernel global new_saosmpler
    indices,        \* result of get_train_indices()
    sampler,        \* data_loader.batch_sampler.sampler
    batch,          \* caption indices of the batch fetched
    grads,          \* gradients: "stale", "zero", "computed"
    outputs,        \* batch the decoder outputs were computed from
    loss,           \* loss.item() in micro units
    opt_steps,      \* number of optimizer.step() calls so far
    models_dir,     \* ./models: file name -> saved parameter state
    save_log,       \* file names written by torch.save in this run, in order
    events,         \* statements executed in the current step, in order
    raised,         \* exception that ended the run, or "none"
    abort_pc        \* statement at which the exception was raised

VARIABLES
    vpc,            \* statement the validation cells are about to execute
    val_images,     \* image ids the validation loader yields, in order
    val_iter,       \* image ids the loader has still to yield in this pass
    pred_result,    \* image id -> list of generated captions
    valid_annot,    \* caption["annotations"] of the annotation file
    annot_pos,      \* position of the loop over valid_annot
    valid_result,   \* image id -> list of reference captions
    bleu,           \* result of the bleu_score call
    loaded          \* parameter states load_state_dict put in the models

vvars ==
    <<vpc, val_images, val_iter, pred_result, valid_annot, annot_pos,
      valid_result, bleu, loaded>>

tvars ==
    <<pc, num_epochs, total_step, save_every, print_every, epoch, i_step,
      f_state, open_count, f_buffer, f_disk, stdout, new_sampler,
      new_saosmpler, indices, sampler, batch, grads, outputs, loss,
      opt_steps, models_dir, save_log, events, raised, abort_pc>>

vars == <<tvars, vvars>>

hyper == <<num_epochs, total_step, save_every, print_every>>
logv == <<f_state, open_count, f_buffer, f_disk>>
datav == <<new_sampler, new_saosmpler, indices, sampler, batch>>
errv == <<raised, abort_pc>>

\* The validation cells have not been run.
ValIdle ==
    /\ vpc = "idle"
    /\ val_images = <<>>
    /\ val_iter = <<>>
    /\ pred_result = EmptyMap
    /\ valid_annot = <<>>
    /\ annot_pos = 0
    /\ valid_result = EmptyMap
    /\ bleu = NoBleu
    /\ loaded = NotLoaded

(* ---------------------------------------------------------------------- *)
(* State before the training cell runs                                     *)
(* ---------------------------------------------------------------------- *)
Init ==
    /\ pc = "open"
    /\ num_epochs \in 1..MaxEpochs
    /\ total_step \in 1..MaxSteps
    /\ save_every \in 1..MaxSaveEvery
    /\ print_every \in 1..MaxPrintEvery
    /\ epoch = 0
    /\ i_step = 0
    /\ f_state = "unopened"
    /\ open_count = 0
    /\ f_buffer = <<>>
    /\ f_disk \in {<<>>, <<StaleLine>>}
    /\ stdout = <<>>
    \* The cell never assigns new_sampler: in a fresh kernel the name is
    \* unbound; in a kernel that ran an earlier version of the cell it is
    \* bound to the sampler that version built last.
    /\ new_sampler \in
         {Unbound} \cup
         {SubsetRandomSampler(get_train_indices(l)) : l \in CaptionLengthsPresent}
    /\ new_saosmpler = Unbound
    /\ indices = {}
    /\ sampler \in
         {SubsetRandomSampler(get_train_indices(l)) : l \in CaptionLengthsPresent}
    /\ batch = {}
    /\ grads = "stale"
    /\ outputs = {}
    /\ loss = 0
    /\ opt_steps = 0
    /\ models_dir = EmptyDir
    /\ save_log = <<>>
    /\ events = <<>>
    /\ raised = "none"
    /\ abort_pc = "none"
    /\ ValIdle

(* ---------------------------------------------------------------------- *)
(* The training cell, one action per statement                             *)
(* ---------------------------------------------------------------------- *)
\* OpenLog with the file opened in append mode: its old lines stay.
OpenLogAppends ==
    /\ pc = "open"
    /\ f_state' = "open"
    /\ open_count' = open_count + 1
    /\ f_buffer' = <<>>
    /\ f_disk' = f_disk
    /\ epoch' = 1
    /\ i_step' = 1
    /\ pc' = "indices"
    /\ UNCHANGED <<vvars, hyper, stdout, datav, grads, outputs, loss, opt_steps,
                   models_dir, save_log, events, errv>>

\* f = open(log_file, "w"); the two for loops are entered.
OpenLog ==
    /\ pc = "open"
    /\ f_state' = "open"
    /\ open_count' = open_count + 1
    /\ f_buffer' = <<>>
    /\ f_disk' = <<>>
    /\ epoch' = 1
    /\ i_step' = 1
    /\ pc' = "indices"
    /\ UNCHANGED <<vvars, hyper, stdout, datav, grads, outputs, loss, opt_steps,
                   models_dir, save_log, events, errv>>

\* indices = data_loader.dataset.get_train_indices()
GetTrainIndices ==
    /\ pc = "indices"
    /\ \E l \in CaptionLengthsPresent : indices' = get_train_indices(l)
    /\ events' = <<"indices">>
    /\ pc' = Succ(pc)
    /\ UNCHANGED <<vvars, hyper, epoch, i_step, logv, stdout, new_sampler,
                   new_saosmpler, sampler, batch, grads, outputs, loss,
                   opt_steps, models_dir, save_log, errv>>

\* new_saosmpler = data.sampler.SubsetRandomSampler(indices=indices)
MakeSampler ==
    /\ pc = "new_saosmpler"
    /\ new_saosmpler' = SubsetRandomSampler(indices)
    /\ events' = Append(events, "new_saosmpler")
    /\ pc' = Succ(pc)
    /\ UNCHANGED <<vvars, hyper, epoch, i_step, logv, stdout, new_sampler, indices,
                   sampler, batch, grads, outputs, loss, opt_steps,
                   models_dir, save_log, errv>>

\* data_loader.batch_sampler.sampler = new_sampler, new_sampler bound
InstallSampler ==
    /\ pc = "install"
    /\ new_sampler # Unbound
    /\ sampler' = new_sampler
    /\ events' = Append(events, "install")
    /\ pc' = Succ(pc)
    /\ UNCHANGED <<vvars, hyper, epoch, i_step, logv, stdout, new_sampler,
                   new_saosmpler, indices, batch, grads, outputs, loss,
                   opt_steps, models_dir, save_log, errv>>

\* data_loader.batch_sampler.sampler = new_sampler, new_sampler not bound:
\* NameError
InstallNameError ==
    /\ pc = "install"
    /\ new_sampler = Unbound
    /\ pc' = "aborted"
    /\ raised' = "NameError"
    /\ abort_pc' = pc
    /\ UNCHANGED <<vvars, hyper, epoch, i_step, logv, stdout, datav, grads, outputs,
                   loss, opt_steps, models_dir, save_log, events>>

\* images, captions = next(iter(data_loader)); .to(device)
FetchBatch ==
    /\ pc = "fetch"
    /\ batch' = NextBatch(sampler)
    /\ events' = Append(events, "fetch")
    /\ pc' = Succ(pc)
    /\ UNCHANGED <<vvars, hyper, epoch, i_step, logv, stdout, new_sampler,
                   new_saosmpler, indices, sampler, grads, outputs, loss,
                   opt_steps, models_dir, save_log, errv>>

\* decoder.zero_grad(); encoder.zero_grad()
ZeroGrad ==
    /\ pc = "zero_grad"
    /\ grads' = "zero"
    /\ events' = Append(events, "zero_grad")
    /\ pc' = Succ(pc)
    /\ UNCHANGED <<vvars, hyper, epoch, i_step, logv, stdout, datav, outputs, loss,
                   opt_steps, models_dir, save_log, errv>>

\* features = encoder(images); outputs = decoder(features, captions)
Forward ==
    /\ pc = "forward"
    /\ outputs' = batch
    /\ events' = Append(events, "forward")
    /\ pc' = Succ(pc)
    /\ UNCHANGED <<vvars, hyper, epoch, i_step, logv, stdout, datav, grads, loss,
                   opt_steps, models_dir, save_log, errv>>

\* loss = criterion(outputs.view(-1, vocab_size), captions.view(-1))
ComputeLoss ==
    /\ pc = "loss"
    /\ \E v \in LossValues : loss' = v
    /\ events' = Append(events, "loss")
    /\ pc' = Succ(pc)
    /\ UNCHANGED <<vvars, hyper, epoch, i_step, logv, stdout, datav, grads, outputs,
                   opt_steps, models_dir, save_log, errv>>

\* loss.backward()
Backward ==
    /\ pc = "backward"
    /\ grads' = "computed"
    /\ events' = Append(events, "backward")
    /\ pc' = Succ(pc)
    /\ UNCHANGED <<vvars, hyper, epoch, i_step, logv, stdout, datav, outputs, loss,
                   opt_steps, models_dir, save_log, errv>>

\* optimizer.step()
OptimizerStep ==
    /\ pc = "optimizer"
    /\ opt_steps' = opt_steps + 1
    /\ events' = Append(events, "optimizer")
    /\ pc' = Succ(pc)
    /\ UNCHANGED <<vvars, hyper, epoch, i_step, logv, stdout, datav, grads, outputs,
                   loss, models_dir, save_log, errv>>

\* stats = ...; f.write(stats + "\n")
WriteLog ==
    /\ pc = "write"
    /\ f_buffer' =
         Append(f_buffer, Stats(epoch, num_epochs, i_step, total_step, loss))
    /\ events' = Append(events, "write")
    /\ pc' = Succ(pc)
    /\ UNCHANGED <<vvars, hyper, epoch, i_step, f_state, open_count, f_disk, stdout,
                   datav, grads, outputs, loss, opt_steps, models_dir, save_log, errv>>

\* FlushLog with the flush moved under the print test.
FlushLogWhenPrinting ==
    /\ pc = "flush"
    /\ IF PrintDue(i_step, print_every)
       THEN /\ f_disk' = Flush(f_disk, f_buffer)
            /\ f_buffer' = <<>>
       ELSE UNCHANGED <<f_disk, f_buffer>>
    /\ events' = Append(events, "flush")
    /\ pc' = Succ(pc)
    /\ UNCHANGED <<vvars, hyper, epoch, i_step, f_state, open_count, stdout, datav,
                   grads, outputs, loss, opt_steps, models_dir, save_log, errv>>

\* f.flush()
FlushLog ==
    /\ pc = "flush"
    /\ f_disk' = Flush(f_disk, f_buffer)
    /\ f_buffer' = <<>>
    /\ events' = Append(events, "flush")
    /\ pc' = Succ(pc)
    /\ UNCHANGED <<vvars, hyper, epoch, i_step, f_state, open_count, stdout, datav,
                   grads, outputs, loss, opt_steps, models_dir, save_log, errv>>

\* if i_step % print_every == 0: print("\r" + stats); then the inner loop
\* advances, or ends and the epoch's save test is made.
PrintStats ==
    /\ pc = "print"
    /\ stdout' =
         IF PrintDue(i_step, print_every)
         THEN Append(stdout,
                     Stats(epoch, num_epochs, i_step, total_step, loss))
         ELSE stdout
    /\ events' = Append(events, "print")
    /\ IF i_step < total_step
       THEN /\ i_step' = i_step + 1
            /\ pc' = "indices"
       ELSE /\ i_step' = i_step
            /\ pc' = IF SaveDue(epoch, save_every)
                     THEN "save_decoder" ELSE "next_epoch"
    /\ UNCHANGED <<vvars, hyper, epoch, logv, datav, grads, outputs, loss,
                   opt_steps, models_dir, save_log, errv>>

\* SaveDecoder with the encoder's file name pasted into it.
SaveDecoderUnderEncoderName ==
    /\ pc = "save_decoder"
    /\ models_dir' = Put(models_dir, FileName("encoder", epoch), opt_steps)
    /\ save_log' = Append(save_log, FileName("encoder", epoch))
    /\ pc' = "save_encoder"
    /\ UNCHANGED <<vvars, hyper, epoch, i_step, logv, stdout, datav, grads, outputs,
                   loss, opt_steps, events, errv>>

\* torch.save(decoder.state_dict(), ".../decoder-%d.pkl" % epoch)
SaveDecoder ==
    /\ pc = "save_decoder"
    /\ models_dir' = Put(models_dir, FileName("decoder", epoch), opt_steps)
    /\ save_log' = Append(save_log, FileName("decoder", epoch))
    /\ pc' = "save_encoder"
    /\ UNCHANGED <<vvars, hyper, epoch, i_step, logv, stdout, datav, grads, outputs,
                   loss, opt_steps, events, errv>>

\* torch.save(encoder.state_dict(), ".../encoder-%d.pkl" % epoch)
SaveEncoder ==
    /\ pc = "save_encoder"
    /\ models_dir' = Put(models_dir, FileName("encoder", epoch), opt_steps)
    /\ save_log' = Append(save_log, FileName("encoder", epoch))
    /\ pc' = "next_epoch"
    /\ UNCHANGED <<vvars, hyper, epoch, i_step, logv, stdout, datav, grads, outputs,
                   loss, opt_steps, events, errv>>

\* for epoch in range(1, num_epochs + 1): next value, or the loop ends
NextEpoch ==
    /\ pc = "next_epoch"
    /\ IF epoch < num_epochs
       THEN /\ epoch' = epoch + 1
            /\ i_step' = 1
            /\ pc' = "indices"
       ELSE /\ epoch' = epoch
            /\ i_step' = i_step
            /\ pc' = "close"
    /\ UNCHANGED <<vvars, hyper, logv, stdout, datav, grads, outputs, loss,
                   opt_steps, models_dir, save_log, events, errv>>

\* f.close()
CloseLog ==
    /\ pc = "close"
    /\ f_disk' = Flush(f_disk, f_buffer)
    /\ f_buffer' = <<>>
    /\ f_state' = "closed"
    /\ pc' = "done"
    /\ UNCHANGED <<vvars, hyper, epoch, i_step, open_count, stdout, datav, grads,
                   outputs, loss, opt_steps, models_dir, save_log, events, errv>>

\* ExternalRaise with the exception caught and the step tried again.
ExternalRaiseRetried ==
    /\ pc \notin {"done", "aborted"}
    /\ pc' = IF pc \in StepPcs THEN "indices" ELSE "aborted"
    /\ raised' = "external"
    /\ abort_pc' = pc
    /\ UNCHANGED <<vvars, hyper, epoch, i_step, logv, stdout, datav, grads, outputs,
                   loss, opt_steps, models_dir, save_log, events>>

\* An external component (data loader, model, optimizer, file system)
\* raises at the current statement: the exception propagates, nothing
\* catches it, the cell stops.
ExternalRaise ==
    /\ pc \notin {"done", "aborted"}
    /\ pc' = "aborted"
    /\ raised' = "external"
    /\ abort_pc' = pc
    /\ UNCHANGED <<vvars, hyper, epoch, i_step, logv, stdout, datav, grads, outputs,
                   loss, opt_steps, models_dir, save_log, events>>

Next ==
    \/ OpenLog
    \/ GetTrainIndices
    \/ MakeSampler
    \/ InstallSampler
    \/ InstallNameError
    \/ FetchBatch
    \/ ZeroGrad
    \/ Forward
    \/ ComputeLoss
    \/ Backward
    \/ OptimizerStep
    \/ WriteLog
    \/ FlushLog
    \/ PrintStats
    \/ SaveDecoder
    \/ SaveEncoder
    \/ NextEpoch
    \/ CloseLog
    \/ ExternalRaise

Spec == Init /\ [][Next]_vars

TypeOK ==
    /\ pc \in StepPcs \cup {"open", "save_decoder", "save_encoder",
                            "next_epoch", "close", "done", "aborted", "idle"}
    /\ epoch \in 0..num_epochs
    /\ i_step \in 0..total_step
    /\ f_state \in {"unopened", "open", "closed"}
    /\ grads \in {"stale", "zero", "computed"}
    /\ raised \in {"none", "NameError", "external"}

(* ---------------------------------------------------------------------- *)
(* Helpers of the properties                                               *)
(* ---------------------------------------------------------------------- *)
\* Lines the log file object holds: on disk, then still buffered.
Log == f_disk \o f_buffer

\* Steps whose body has run to the end of f.flush().
FlushedSteps ==
    IF epoch = 0 THEN 0
    ELSE (epoch - 1) * total_step + (i_step - 1)
         + (IF pc \in {"print", "save_decoder", "save_encoder", "next_epoch",
                       "close", "done"}
               \/ (pc = "aborted" /\ abort_pc \in
                     {"print", "save_decoder", "save_encoder", "next_epoch",
                      "close"})
            THEN 1 ELSE 0)

IsPrefix(s, t) == Len(s) =< Len(t) /\ \A k \in 1..Len(s) : s[k] = t[k]

CheckpointNames(es) == {FileName(k, e) : k \in {"encoder", "decoder"}, e \in es}

\* The actions the ordering contract names, in the order it names them.
ClaimOrder ==
    <<"install", "fetch", "zero_grad", "forward", "loss", "backward",
      "optimizer", "write", "flush">>

InClaimOrder(x) == \E k \in DOMAIN ClaimOrder : ClaimOrder[k] = x

Claimed(ev) == SelectSeq(ev, InClaimOrder)

AfterFetch ==
    {"zero_grad", "forward", "loss", "backward", "optimizer", "write",
     "flush", "print"}

(* ---------------------------------------------------------------------- *)
(* C1: a run with num_epochs = E and total_step = S that completes has     *)
(* exactly E*S lines in the log file and the log closed, and a run ends    *)
(* without completing only when an external component raised.              *)
(* ---------------------------------------------------------------------- *)
C1_OneLinePerStepAndCompletes ==
    /\ pc = "done" =>
         /\ Len(f_disk) = num_epochs * total_step
         /\ f_state = "closed"
    /\ pc = "aborted" => raised = "external"

(* ---------------------------------------------------------------------- *)
(* C2: when the run has completed, the models directory holds             *)
(* encoder-e.pkl and decoder-e.pkl exactly for the epochs e in             *)
(* 1..num_epochs with e % save_every = 0, each holding the parameters as   *)
(* they were at the end of epoch e, and no other file; with                *)
(* num_epochs = total_step = save_every = 1 that is exactly one pair.      *)
(* ---------------------------------------------------------------------- *)
C2_CheckpointsOfCompletedRun ==
    pc = "done" =>
      /\ DOMAIN models_dir =
           CheckpointNames({e \in 1..num_epochs : e % save_every = 0})
      /\ \A n \in DOMAIN models_dir : models_dir[n] = n[2] * total_step
      /\ (num_epochs = 1 /\ total_step = 1 /\ save_every = 1) =>
           DOMAIN models_dir = {FileName("encoder", 1), FileName("decoder", 1)}

C2_Witness ==
    /\ pc = "done"
    /\ num_epochs = 2
    /\ save_every = 2
    /\ DOMAIN models_dir = {FileName("encoder", 2), FileName("decoder", 2)}

(* ---------------------------------------------------------------------- *)
(* C3: in every step the sampler installed before the batch fetch is the  *)
(* one built from that step's get_train_indices() result, and the batch    *)
(* fetched is drawn from those indices, so its captions share the caption  *)
(* length chosen in that step.                                             *)
(* ---------------------------------------------------------------------- *)
C3_BatchFromThisStepsIndices ==
    /\ raised # "NameError"
    /\ pc \in AfterFetch =>
         /\ sampler = SubsetRandomSampler(indices)
         /\ batch \subseteq indices
         /\ \A i \in batch, j \in indices :
              caption_lengths[i] = caption_lengths[j]

(* ---------------------------------------------------------------------- *)
(* C4: an exception raised during step s of epoch e aborts the run: no    *)
(* statement runs afterwards, the log file holds the lines of the steps    *)
(* completed before, the checkpoint pairs of the earlier epochs are        *)
(* present with the content they were written with, and there is no        *)
(* checkpoint of epoch e or later.                                         *)
(* ---------------------------------------------------------------------- *)
C4_AbortState ==
    /\ raised # "none" <=> pc = "aborted"
    /\ (pc = "aborted" /\ abort_pc \in StepPcs) =>
         /\ Len(f_disk) >= FlushedSteps
         /\ \A k \in 1..FlushedSteps :
              /\ f_disk[k].epoch = ((k - 1) \div total_step) + 1
              /\ f_disk[k].i_step = ((k - 1) % total_step) + 1
         /\ \A e \in 1..(epoch - 1) :
              e % save_every = 0 =>
                \A k \in {"encoder", "decoder"} :
                  /\ FileName(k, e) \in DOMAIN models_dir
                  /\ models_dir[FileName(k, e)] = e * total_step
         /\ \A n \in DOMAIN models_dir : n[2] < epoch

C4_AbortIsFinal == [][pc = "aborted" => UNCHANGED vars]_vars

C4_ExceptionAbortsRun == []C4_AbortState /\ C4_AbortIsFinal

C4_Witness ==
    /\ pc = "aborted"
    /\ abort_pc = "backward"
    /\ epoch = 2
    /\ i_step = 2
    /\ save_every = 1
    /\ Len(f_disk) = 3
    /\ FileName("decoder", 1) \in DOMAIN models_dir

(* ---------------------------------------------------------------------- *)
(* C5: the log file is opened once, before the first step; when a step    *)
(* starts every line written so far has been flushed to the file; the      *)
(* file is closed only after the last step of the last epoch; a run that   *)
(* aborted has not closed it.                                              *)
(* ---------------------------------------------------------------------- *)
C5_LogOpenFlushClose ==
    /\ open_count =< 1
    /\ epoch >= 1 => (open_count = 1 /\ f_state # "unopened")
    /\ pc \in StepPcs => f_state = "open"
    /\ pc = "indices" =>
         /\ f_buffer = <<>>
         /\ Len(f_disk) = FlushedSteps
    /\ f_state = "closed" =>
         /\ pc = "done"
         /\ epoch = num_epochs
         /\ i_step = total_step
         /\ Len(f_disk) = num_epochs * total_step
    /\ pc = "aborted" => f_state # "closed"

C5_Witness ==
    /\ pc = "indices"
    /\ epoch = 2
    /\ i_step = 2
    /\ Len(f_disk) = 3
    /\ f_buffer = <<>>
    /\ open_count = 1

(* ---------------------------------------------------------------------- *)
(* C8 as stated: in every logged line the perplexity field equals exp of   *)
(* the loss field of the same line.                                        *)
(* ---------------------------------------------------------------------- *)
C8_PerplexityIsExpOfLossField ==
    f_state # "unopened" =>
      \A k \in 1..Len(Log) :
        Log[k].perplexity = Fmt4(Exp(FieldValue(Log[k].loss)))

(* ---------------------------------------------------------------------- *)
(* C8 amended: in every logged line the loss field is the four-decimal     *)
(* rendering of a loss value and the perplexity field is the four-decimal  *)
(* rendering of exp of that same unrounded value; the line just written    *)
(* takes both from the loss computed in this step on the batch fetched in  *)
(* this step.                                                              *)
(* ---------------------------------------------------------------------- *)
C8_PerplexityIsExpOfLoss ==
    f_state # "unopened" =>
      /\ \A k \in 1..Len(Log) :
           \E l \in LossValues :
             /\ Log[k].loss = Fmt4(l)
             /\ Log[k].perplexity = Fmt4(Exp(l))
      /\ pc = "flush" =>
           /\ Log[Len(Log)].loss = Fmt4(loss)
           /\ Log[Len(Log)].perplexity = Fmt4(Exp(loss))
           /\ \E k \in DOMAIN events : events[k] = "loss"
           /\ outputs = batch

C8_Witness ==
    /\ pc = "flush"
    /\ loss = 2300040
    /\ Log[Len(Log)].loss = 23000
    /\ Log[Len(Log)].perplexity = 99746

(* ---------------------------------------------------------------------- *)
(* C9: the status line of a step is printed if and only if the step's     *)
(* index within its epoch is a multiple of print_every, so a completed     *)
(* run has printed num_epochs * (total_step div print_every) lines, while  *)
(* the log file gets the line of every step.                               *)
(* ---------------------------------------------------------------------- *)
C9_LinesDue(lines) ==
    SelectSeq(lines, LAMBDA ln : ln.i_step % print_every = 0)

C9_PrintEveryLogAlways ==
    f_state # "unopened" =>
      /\ stdout =
           C9_LinesDue(IF \/ pc \in {"flush", "print"}
                          \/ (pc = "aborted" /\ abort_pc \in {"flush", "print"})
                       THEN SubSeq(Log, 1, Len(Log) - 1)
                       ELSE Log)
      /\ pc \in {"print", "indices", "done"} => Len(Log) = FlushedSteps
      /\ pc = "done" =>
           /\ Len(stdout) = num_epochs * (total_step \div print_every)
           /\ Len(f_disk) = num_epochs * total_step

C9_Witness ==
    /\ pc = "done"
    /\ num_epochs = 2
    /\ total_step = 2
    /\ print_every = 2
    /\ Len(stdout) = 2
    /\ Len(f_disk) = 4

(* ---------------------------------------------------------------------- *)
(* C10: within a step the actions install sampler, fetch batch, zero       *)
(* gradients, forward, loss, backward, optimizer step, log write, flush    *)
(* run in this order, each once; a step begins only when the previous      *)
(* step has run all of them and its line is flushed; when a step's line    *)
(* is written exactly one optimizer step has been made for that step.      *)
(* ---------------------------------------------------------------------- *)
C10_StrictStepOrder ==
    /\ IsPrefix(Claimed(events), ClaimOrder)
    /\ (pc = "indices" /\ events # <<>>) =>
         /\ Claimed(events) = ClaimOrder
         /\ f_buffer = <<>>
    /\ pc \in {"forward", "loss", "backward"} => grads = "zero"
    /\ pc \in {"optimizer"} => grads = "computed"
    /\ pc \in {"write", "flush", "print"} =>
         opt_steps = (epoch - 1) * total_step + i_step
    /\ pc \in {"indices", "new_saosmpler", "install", "fetch", "zero_grad",
               "forward", "loss", "backward", "optimizer"} =>
         opt_steps = (epoch - 1) * total_step + i_step - 1

C10_Witness ==
    /\ pc = "indices"
    /\ epoch = 2
    /\ i_step = 2
    /\ Claimed(events) = ClaimOrder
    /\ opt_steps = 3

(* ---------------------------------------------------------------------- *)
(* The validation cells (Step 3)                                           *)
(* ---------------------------------------------------------------------- *)
\* The training cell is not running.
TrainIdle ==
    /\ pc = "idle"
    /\ num_epochs = 1
    /\ total_step = 1
    /\ save_every = 1
    /\ print_every = 1
    /\ epoch = 0
    /\ i_step = 0
    /\ f_state = "unopened"
    /\ open_count = 0
    /\ f_buffer = <<>>
    /\ f_disk = <<>>
    /\ stdout = <<>>
    /\ new_sampler = Unbound
    /\ new_saosmpler = Unbound
    /\ indices = {}
    /\ sampler = SubsetRandomSampler({})
    /\ batch = {}
    /\ grads = "stale"
    /\ outputs = {}
    /\ loss = 0
    /\ opt_steps = 0
    /\ models_dir = EmptyDir
    /\ save_log = <<>>
    /\ events = <<>>
    /\ raised = "none"
    /\ abort_pc = "none"

InitVal ==
    /\ TrainIdle
    /\ vpc = "start"
    /\ val_images \in LoaderOrders
    /\ val_iter = <<>>
    /\ pred_result \in {EmptyMap, StalePredResult}
    /\ valid_annot \in AnnotationFiles
    /\ annot_pos = 0
    /\ valid_result = EmptyMap
    /\ bleu = NoBleu
    /\ loaded = NotLoaded

\* StartInference that keeps the map the kernel already holds.
StartInferenceKeepsMap ==
    /\ vpc = "start"
    /\ pred_result' = pred_result
    /\ val_iter' = val_images
    /\ vpc' = "infer"
    /\ UNCHANGED <<tvars, loaded, val_images, valid_annot, annot_pos, valid_result,
                   bleu>>

\* pred_result = defaultdict(list); for img_id, img in tqdm(val_data_loader)
StartInference ==
    /\ vpc = "start"
    /\ pred_result' = EmptyMap
    /\ val_iter' = val_images
    /\ vpc' = "infer"
    /\ UNCHANGED <<tvars, loaded, val_images, valid_annot, annot_pos, valid_result,
                   bleu>>

\* One iteration: encoder, decoder.sample, clean_sentence,
\* pred_result[img_id.item()].append(sentence)
InferNext ==
    /\ vpc = "infer"
    /\ val_iter # <<>>
    /\ \E sentence \in Sentences :
         pred_result' = DictAppend(pred_result, Head(val_iter), sentence)
    /\ val_iter' = Tail(val_iter)
    /\ UNCHANGED <<tvars, loaded, vpc, val_images, valid_annot, annot_pos,
                   valid_result, bleu>>

\* The loader is exhausted: the loop ends.
EndInference ==
    /\ vpc = "infer"
    /\ val_iter = <<>>
    /\ vpc' = "load_annot"
    /\ UNCHANGED <<tvars, loaded, val_images, val_iter, pred_result, valid_annot,
                   annot_pos, valid_result, bleu>>

\* caption = json.load(f); valid_annot = caption["annotations"];
\* valid_result = defaultdict(list)
LoadAnnotations ==
    /\ vpc = "load_annot"
    /\ valid_result' = EmptyMap
    /\ annot_pos' = 1
    /\ vpc' = "build"
    /\ UNCHANGED <<tvars, loaded, val_images, val_iter, pred_result, valid_annot, bleu>>

\* valid_result[i["image_id"]].append(i["caption"].lower())
BuildNext ==
    /\ vpc = "build"
    /\ annot_pos =< Len(valid_annot)
    /\ valid_result' =
         DictAppend(valid_result, valid_annot[annot_pos].image_id,
                    Lower(valid_annot[annot_pos].caption))
    /\ annot_pos' = annot_pos + 1
    /\ UNCHANGED <<tvars, loaded, vpc, val_images, val_iter, pred_result, valid_annot,
                   bleu>>

\* The annotations are exhausted: the loop ends.
EndBuild ==
    /\ vpc = "build"
    /\ annot_pos > Len(valid_annot)
    /\ vpc' = "score"
    /\ UNCHANGED <<tvars, loaded, val_images, val_iter, pred_result, valid_annot,
                   annot_pos, valid_result, bleu>>

\* bleu_score(true_sentences=valid_result, predicted_sentences=pred_result)
Score ==
    /\ vpc = "score"
    /\ bleu' = bleu_score(valid_result, pred_result)
    /\ vpc' = "scored"
    /\ UNCHANGED <<tvars, loaded, val_images, val_iter, pred_result, valid_annot,
                   annot_pos, valid_result>>

NextVal ==
    \/ StartInference
    \/ InferNext
    \/ EndInference
    \/ LoadAnnotations
    \/ BuildNext
    \/ EndBuild
    \/ Score

SpecVal == InitVal /\ [][NextVal]_vars

\* Set of the elements of a sequence.
Range(q) == {q[k] : k \in DOMAIN q}

(* ---------------------------------------------------------------------- *)
(* C6: the BLEU call scores exactly the image ids that are keys of both    *)
(* the reference map and the prediction map; an id that is a key of only   *)
(* one of them is left out of the aggregate and raises no error.           *)
(* ---------------------------------------------------------------------- *)
C6_ScoresKeysOfBothMaps ==
    vpc = "scored" =>
      /\ ~bleu.error
      /\ \A id \in ImageIds :
           id \in bleu.scored <=>
             (id \in DOMAIN valid_result /\ id \in DOMAIN pred_result)
      /\ (DOMAIN valid_result = {1, 2} /\ DOMAIN pred_result = {1}) =>
           /\ bleu.scored = {1}
           /\ bleu.score = SentenceBleu(valid_result[1], pred_result[1][1])

C6_Witness ==
    /\ vpc = "scored"
    /\ DOMAIN valid_result = {1, 2}
    /\ DOMAIN pred_result = {1}
    /\ bleu.scored = {1}
    /\ bleu.score = 100

(* ---------------------------------------------------------------------- *)
(* C7: after the inference pass the keys of the prediction map are         *)
(* exactly the image ids the validation loader yielded, and every key      *)
(* maps to a list of exactly one caption string.                           *)
(* ---------------------------------------------------------------------- *)
C7_OnePredictionPerImage ==
    /\ vpc = "infer" =>
         /\ DOMAIN pred_result =
              {val_images[k] : k \in 1..(Len(val_images) - Len(val_iter))}
         /\ \A id \in DOMAIN pred_result : Len(pred_result[id]) = 1
    /\ vpc \in {"load_annot", "build", "score", "scored"} =>
         /\ DOMAIN pred_result = Range(val_images)
         /\ \A id \in DOMAIN pred_result :
              /\ Len(pred_result[id]) = 1
              /\ pred_result[id][1] \in Sentences

C7_Witness ==
    /\ vpc = "load_annot"
    /\ val_images = <<2, 1>>
    /\ DOMAIN pred_result = {1, 2}
    /\ pred_result[1] = <<"">>
    /\ pred_result[2] = <<"a dog">>

(* ---------------------------------------------------------------------- *)
(* C11: from the opening of the log on, the log file holds one line for    *)
(* every step that has run through its flush, in execution order: line k   *)
(* carries epoch ((k-1) div total_step) + 1 and step                       *)
(* ((k-1) mod total_step) + 1, the (epoch, step) pairs increase strictly   *)
(* in lexicographic order within 1..num_epochs and 1..total_step, and      *)
(* every line shows the same totals.                                       *)
(* ---------------------------------------------------------------------- *)
C11_LexLess(a, b) ==
    \/ a.epoch < b.epoch
    \/ (a.epoch = b.epoch /\ a.i_step < b.i_step)

C11_LogIsStepSequence ==
    f_state # "unopened" =>
      /\ Len(f_disk) = FlushedSteps
      /\ Len(f_buffer) =< 1
      /\ \A k \in 1..Len(Log) :
           /\ Log[k].epoch = ((k - 1) \div total_step) + 1
           /\ Log[k].i_step = ((k - 1) % total_step) + 1
           /\ Log[k].epoch \in 1..num_epochs
           /\ Log[k].i_step \in 1..total_step
           /\ Log[k].num_epochs = num_epochs
           /\ Log[k].total_step = total_step
      /\ \A k \in 1..(Len(Log) - 1) : C11_LexLess(Log[k], Log[k + 1])

C11_Witness ==
    /\ pc = "close"
    /\ num_epochs = 2
    /\ total_step = 2
    /\ Len(f_disk) = 4
    /\ f_disk[3].epoch = 2
    /\ f_disk[3].i_step = 1

(* ---------------------------------------------------------------------- *)
(* C12: the reference map holds, under every image id occurring in the     *)
(* annotations, the lower-cased captions of that image's annotations in    *)
(* annotation order; its keys are exactly those image ids and its lists    *)
(* together have as many entries as there are annotations.                 *)
(* ---------------------------------------------------------------------- *)
\* Positions, among the first n annotations, of the annotations of image id.
C12_PositionsOf(id, n) == {k \in 1..n : valid_annot[k].image_id = id}

\* The j-th smallest element of a set of positions.
C12_Nth(ps, j) == CHOOSE k \in ps : Cardinality({m \in ps : m =< k}) = j

RECURSIVE C12_TotalLen(_, _)
C12_TotalLen(ids, m) ==
    IF ids = {} THEN 0
    ELSE LET i == CHOOSE x \in ids : TRUE
         IN  Len(m[i]) + C12_TotalLen(ids \ {i}, m)

C12_MapOfFirst(n) ==
    /\ DOMAIN valid_result = {valid_annot[k].image_id : k \in 1..n}
    /\ \A id \in DOMAIN valid_result :
         LET ps == C12_PositionsOf(id, n)
         IN  /\ Len(valid_result[id]) = Cardinality(ps)
             /\ \A j \in 1..Cardinality(ps) :
                  /\ valid_result[id][j] \in {"a dog", "a cat"}
                  /\ (valid_annot[C12_Nth(ps, j)].caption = "A Dog"
                        => valid_result[id][j] = "a dog")
                  /\ (valid_annot[C12_Nth(ps, j)].caption = "a cat"
                        => valid_result[id][j] = "a cat")
    /\ C12_TotalLen(DOMAIN valid_result, valid_result) = n

C12_ReferenceMap ==
    /\ vpc = "build" => C12_MapOfFirst(annot_pos - 1)
    /\ vpc \in {"score", "scored"} => C12_MapOfFirst(Len(valid_annot))

C12_Witness ==
    /\ vpc = "score"
    /\ Len(valid_annot) = 2
    /\ valid_annot[1] = [image_id |-> 1, caption |-> "a cat"]
    /\ valid_annot[2] = [image_id |-> 1, caption |-> "A Dog"]
    /\ valid_result[1] = <<"a cat", "a dog">>

(* ---------------------------------------------------------------------- *)
(* C13: checkpoints are written in pairs at the epoch boundary: for every  *)
(* saved epoch e decoder-e.pkl is written, then encoder-e.pkl, both after   *)
(* all total_step steps of epoch e are logged and before any step of       *)
(* epoch e+1; in every state, aborted ones included, encoder-e.pkl exists   *)
(* only if decoder-e.pkl exists, and no file is written twice in a run.     *)
(* ---------------------------------------------------------------------- *)
RECURSIVE C13_SavesUpTo(_)
C13_SavesUpTo(e) ==
    IF e = 0 THEN <<>>
    ELSE C13_SavesUpTo(e - 1) \o
         (IF e % save_every = 0
          THEN <<FileName("decoder", e), FileName("encoder", e)>>
          ELSE <<>>)

C13_InStep ==
    \/ pc \in StepPcs
    \/ (pc = "aborted" /\ abort_pc \in StepPcs)

C13_CheckpointPairs ==
    pc # "idle" =>
      /\ IsPrefix(save_log, C13_SavesUpTo(num_epochs))
      /\ \A a, b \in DOMAIN save_log : a # b => save_log[a] # save_log[b]
      /\ DOMAIN models_dir = Range(save_log)
      /\ \A e \in 1..num_epochs :
           FileName("encoder", e) \in DOMAIN models_dir
             => FileName("decoder", e) \in DOMAIN models_dir
      /\ \A n \in DOMAIN models_dir :
           /\ models_dir[n] = n[2] * total_step
           /\ Len(f_disk) >= n[2] * total_step
           /\ n[2] =< epoch
           /\ n[2] = epoch => ~C13_InStep
      /\ pc \in {"save_decoder", "save_encoder"} =>
           /\ i_step = total_step
           /\ Len(f_disk) = epoch * total_step
           /\ opt_steps = epoch * total_step

C13_Witness ==
    /\ pc = "aborted"
    /\ abort_pc = "save_encoder"
    /\ epoch = 2
    /\ save_every = 1
    /\ save_log =
         <<FileName("decoder", 1), FileName("encoder", 1),
           FileName("decoder", 2)>>

(* ---------------------------------------------------------------------- *)
(* The notebook run from the training cell on: the cells run in order and  *)
(* a cell that raises stops the run.                                       *)
(* ---------------------------------------------------------------------- *)
\* Checkpoints of the validation cell's names left in ./models by an
\* earlier run (parameter state 0: not a state this run saves).
StaleModels ==
    Put(Put(EmptyDir, decoder_file, 0), encoder_file, 0)

\* The annotation file and the validation images of the notebook run.
NotebookAnnotations == <<[image_id |-> 1, caption |-> "A Dog"]>>

NotebookValImages == <<1>>

InitNotebook ==
    /\ pc = "open"
    /\ num_epochs \in 1..NotebookNumEpochs
    /\ total_step \in 1..MaxSteps
    /\ save_every \in 1..MaxSaveEvery
    /\ print_every = NotebookPrintEvery
    /\ epoch = 0
    /\ i_step = 0
    /\ f_state = "unopened"
    /\ open_count = 0
    /\ f_buffer = <<>>
    /\ f_disk \in {<<>>, <<StaleLine>>}
    /\ stdout = <<>>
    /\ new_sampler \in
         {Unbound} \cup
         {SubsetRandomSampler(get_train_indices(l)) : l \in CaptionLengthsPresent}
    /\ new_saosmpler = Unbound
    /\ indices = {}
    /\ sampler \in
         {SubsetRandomSampler(get_train_indices(l)) : l \in CaptionLengthsPresent}
    /\ batch = {}
    /\ grads = "stale"
    /\ outputs = {}
    /\ loss = 0
    /\ opt_steps = 0
    /\ models_dir \in {EmptyDir, StaleModels}
    /\ save_log = <<>>
    /\ events = <<>>
    /\ raised = "none"
    /\ abort_pc = "none"
    /\ vpc = "setup"
    /\ val_images = NotebookValImages
    /\ val_iter = <<>>
    /\ pred_result = EmptyMap
    /\ valid_annot = NotebookAnnotations
    /\ annot_pos = 0
    /\ valid_result = EmptyMap
    /\ bleu = NoBleu
    /\ loaded = NotLoaded

\* encoder_file = "encoder-3.pkl"; decoder_file = "decoder-3.pkl";
\* encoder.load_state_dict(torch.load(os.path.join("./models", encoder_file)));
\* decoder.load_state_dict(torch.load(os.path.join("./models", decoder_file)));
\* torch.load raises FileNotFoundError for a file that does not exist.
\* The cell runs once the training cell has run to its end.
LoadCheckpoints ==
    /\ vpc = "setup"
    /\ pc = "done"
    /\ IF encoder_file \in DOMAIN models_dir /\ decoder_file \in DOMAIN models_dir
       THEN /\ loaded' = [encoder |-> models_dir[encoder_file],
                          decoder |-> models_dir[decoder_file]]
            /\ vpc' = "start"
       ELSE /\ loaded' = NotLoaded
            /\ vpc' = "load_failed"
    /\ UNCHANGED <<tvars, val_images, val_iter, pred_result, valid_annot,
                   annot_pos, valid_result, bleu>>

NextNotebook ==
    \/ OpenLog
    \/ GetTrainIndices
    \/ MakeSampler
    \/ InstallSampler
    \/ InstallNameError
    \/ FetchBatch
    \/ ZeroGrad
    \/ Forward
    \/ ComputeLoss
    \/ Backward
    \/ OptimizerStep
    \/ WriteLog
    \/ FlushLog
    \/ PrintStats
    \/ SaveDecoder
    \/ SaveEncoder
    \/ NextEpoch
    \/ CloseLog
    \/ ExternalRaise
    \/ LoadCheckpoints
    \/ StartInference
    \/ InferNext
    \/ EndInference
    \/ LoadAnnotations
    \/ BuildNext
    \/ EndBuild
    \/ Score

SpecNotebook == InitNotebook /\ [][NextNotebook]_vars

====
